---------------------------- MODULE Spec2Model ----------------------------
(***************************************************************************)
(* A model of the pure computation core of prestige-fragrance-gtm          *)
(* (src/core.py): unit economics, promo calendar evaluation, the Prestige  *)
(* Protection Index and the advisor.                                       *)
(*                                                                         *)
(* Python floats are modelled as exact rationals [num, den] in lowest      *)
(* terms with den > 0.  A value with den = 0 stands for a raised           *)
(* ZeroDivisionError, which every arithmetic operator propagates, so that  *)
(* a call's result is either a number or the error it raised.  Rounding    *)
(* and overflow of IEEE doubles are not modelled.                          *)
(*                                                                         *)
(* The machine is one call frame: Init draws the function and its          *)
(* arguments, one action per function applies it and stores the result.    *)
(***************************************************************************)
EXTENDS Integers, Sequences, FiniteSets, TLC

VARIABLES
    pc,      \* "call" before the function runs, "return" after it
    fn,      \* the function called
    args,    \* its arguments
    ret,     \* its return value
    exc      \* the exception it raised: "none" or "ZeroDivisionError"

vars == <<pc, fn, args, ret, exc>>

---------------------------------------------------------------------------
(* Rational arithmetic standing for Python float arithmetic. *)

Abs(x) == IF x < 0 THEN -x ELSE x

RECURSIVE GCD(_, _)
GCD(a, b) == IF b = 0 THEN a ELSE GCD(b, a % b)

ZeroDivisionError == [num |-> 1, den |-> 0]

Raised(x) == x.den = 0

R(n, d) ==
    IF d = 0 THEN ZeroDivisionError
    ELSE LET g == GCD(Abs(n), Abs(d))
             s == IF d < 0 THEN -1 ELSE 1
         IN  [num |-> (s * n) \div g, den |-> (s * d) \div g]

Num(n) == [num |-> n, den |-> 1]

Add(x, y) ==
    IF Raised(x) \/ Raised(y) THEN ZeroDivisionError
    ELSE R(x.num * y.den + y.num * x.den, x.den * y.den)

Neg(x) == IF Raised(x) THEN ZeroDivisionError ELSE [num |-> -x.num, den |-> x.den]

Sub(x, y) == Add(x, Neg(y))

Mul(x, y) ==
    IF Raised(x) \/ Raised(y) THEN ZeroDivisionError
    ELSE R(x.num * y.num, x.den * y.den)

\* x / y: Python raises ZeroDivisionError when y == 0
Div(x, y) ==
    IF Raised(x) \/ Raised(y) \/ y.num = 0 THEN ZeroDivisionError
    ELSE R(x.num * y.den, x.den * y.num)

Lt(x, y) == x.num * y.den < y.num * x.den
Le(x, y) == x.num * y.den <= y.num * x.den
Gt(x, y) == Lt(y, x)
Ge(x, y) == Le(y, x)

Max(x, y) == IF Gt(y, x) THEN y ELSE x
Min(x, y) == IF Lt(y, x) THEN y ELSE x

\* x ** n for an integer n: 0.0 ** n raises ZeroDivisionError when n < 0
RECURSIVE Pow(_, _)
Pow(x, n) ==
    IF Raised(x) THEN ZeroDivisionError
    ELSE IF n = 0 THEN Num(1)
    ELSE IF n < 0 THEN Div(Num(1), Pow(x, -n))
    ELSE Mul(x, Pow(x, n - 1))

None == << >>
Some(v) == << v >>

Exc(raised) == IF raised THEN "ZeroDivisionError" ELSE "none"

---------------------------------------------------------------------------
(* Unit economics: src/core.py lines 43-56 *)

ltv_gm_nofirst(arpu, gm_pct, retention, months) ==
    LET gm == Mul(arpu, gm_pct)
    IN  IF retention = Num(1) THEN Mul(gm, Num(months))
        ELSE Mul(gm, Div(Sub(Num(1), Pow(retention, months)),
                         Sub(Num(1), retention)))

ltv_gm(arpu, gm_pct, retention, months) ==
    LET gm == Mul(arpu, gm_pct)
    IN  IF retention = Num(1) THEN Mul(gm, Num(months))
        ELSE Mul(gm, Div(Mul(retention, Sub(Num(1), Pow(retention, months))),
                         Sub(Num(1), retention)))

\* the for loop of payback_month from iteration t on, cum accumulated so far
RECURSIVE payback_loop(_, _, _, _, _, _)
payback_loop(gm, retention, cac, months, t, cum) ==
    IF t > months THEN None
    ELSE LET cum2 == Add(cum, Mul(gm, Pow(retention, t)))
         IN  IF Ge(cum2, cac) THEN Some(t)
             ELSE payback_loop(gm, retention, cac, months, t + 1, cum2)

\* retention ** t raised in one of the iterations the loop ran
payback_raises(retention, months, result) ==
    \E t \in 1 .. (IF result = None THEN months ELSE result[1]) :
        Raised(Pow(retention, t))

payback_month_reversed(arpu, gm_pct, retention, cac, months) ==
    LET RECURSIVE loop(_, _)
        loop(t, cum) ==
            IF t > months THEN None
            ELSE LET cum2 == Add(cum, Mul(Mul(arpu, gm_pct), Pow(retention, t)))
                 IN  IF Le(cum2, cac) THEN Some(t) ELSE loop(t + 1, cum2)
    IN  loop(1, Num(0))

payback_month_strict(arpu, gm_pct, retention, cac, months) ==
    LET RECURSIVE loop(_, _)
        loop(t, cum) ==
            IF t > months THEN None
            ELSE LET cum2 == Add(cum, Mul(Mul(arpu, gm_pct), Pow(retention, t)))
                 IN  IF Gt(cum2, cac) THEN Some(t) ELSE loop(t + 1, cum2)
    IN  loop(1, Num(0))

payback_month(arpu, gm_pct, retention, cac, months) ==
    payback_loop(Mul(arpu, gm_pct), retention, cac, months, 1, Num(0))

---------------------------------------------------------------------------
(* Inputs of the unit-economics calls *)

MaxMonths == 3

Months == -1 .. MaxMonths
Arpus == {Num(-1), Num(1), R(5, 2)}
GmPcts == {R(1, 2), Num(1)}
Retentions == {R(-1, 2), Num(0), R(1, 3), R(1, 2), Num(1), R(3, 2)}
Cacs == {Num(-1), Num(0), R(1, 2), Num(1), Num(3)}

UnitArgs ==
    [arpu : Arpus, gm_pct : GmPcts, retention : Retentions, cac : Cacs,
     months : Months]

InitUnit ==
    /\ pc = "call"
    /\ fn \in {"ltv_gm", "payback_month"}
    /\ args \in UnitArgs
    /\ ret = None
    /\ exc = "none"

Call_ltv_gm ==
    /\ pc = "call" /\ fn = "ltv_gm"
    /\ ret' = ltv_gm(args.arpu, args.gm_pct, args.retention, args.months)
    /\ exc' = Exc(Raised(ret'))
    /\ pc' = "return"
    /\ UNCHANGED <<fn, args>>

Call_payback_month ==
    /\ pc = "call" /\ fn = "payback_month"
    /\ ret' = payback_month(args.arpu, args.gm_pct, args.retention, args.cac,
                            args.months)
    /\ exc' = Exc(payback_raises(args.retention, args.months, ret'))
    /\ pc' = "return"
    /\ UNCHANGED <<fn, args>>

NextUnit == Call_ltv_gm \/ Call_payback_month

SpecUnit == InitUnit /\ [][NextUnit]_vars

Returned(f) == pc = "return" /\ fn = f /\ exc = "none"

---------------------------------------------------------------------------
(* Prestige Protection Index: src/core.py lines 34-39 and 147-194 *)

green_max == 35
amber_max == 65

ppi_band_strict(ppi, green, amber) ==
    IF Lt(ppi, green) THEN "Green"
    ELSE IF Lt(ppi, amber) THEN "Amber"
    ELSE "Red"

ppi_band(ppi, green, amber) ==
    IF Le(ppi, green) THEN "Green"
    ELSE IF Le(ppi, amber) THEN "Amber"
    ELSE "Red"

WeightKeys == {"promo_days", "avg_depth", "code_share", "hero", "leakage"}

DefaultWeights ==
    ("promo_days" :> R(20, 100)) @@ ("avg_depth" :> R(25, 100)) @@
    ("code_share" :> R(25, 100)) @@ ("hero" :> R(20, 100)) @@
    ("leakage" :> R(10, 100))

\* sum(d.values())
RECURSIVE DictSum(_)
DictSum(d) ==
    IF DOMAIN d = {} THEN Num(0)
    ELSE LET k == CHOOSE x \in DOMAIN d : TRUE
         IN  Add(d[k], DictSum([x \in DOMAIN d \ {k} |-> d[x]]))

\* d.get(k, default)
Get(d, k, default) == IF k \in DOMAIN d THEN d[k] ELSE default

norm_weights_zero_only(weights) ==
    LET w1 == IF weights = None THEN DefaultWeights ELSE weights[1]
        total1 == IF DOMAIN w1 # {} THEN DictSum(w1) ELSE Num(0)
        fallback == total1 = Num(0)
        w2 == IF fallback THEN DefaultWeights ELSE w1
        total == IF fallback THEN Num(1) ELSE total1
    IN  [k \in DOMAIN w2 |-> Div(w2[k], total)]

\* lines 163-183: the weights actually applied, after defaulting and
\* normalisation
norm_weights(weights) ==
    LET w1 == IF weights = None THEN DefaultWeights ELSE weights[1]
        total1 == IF DOMAIN w1 # {} THEN DictSum(w1) ELSE Num(0)
        fallback == Le(total1, Num(0))
        w2 == IF fallback THEN DefaultWeights ELSE w1
        total == IF fallback THEN Num(1) ELSE total1
    IN  [k \in DOMAIN w2 |-> Div(w2[k], total)]

\* lines 186-192
score_0_to_1(promo_days_pct, avg_depth, code_share, hero_discount_incidence, leakage, norm) ==
    Add(Add(Add(Add(Mul(Get(norm, "promo_days", Num(0)), promo_days_pct),
                    Mul(Get(norm, "avg_depth", Num(0)), avg_depth)),
                Mul(Get(norm, "code_share", Num(0)), code_share)),
            Mul(Get(norm, "hero", Num(0)), hero_discount_incidence)),
        Mul(Get(norm, "leakage", Num(0)), leakage))

ppi_noclamp(promo_days_pct, avg_depth, code_share, hero_discount_incidence, leakage, weights) ==
    Mul(Num(100), score_0_to_1(promo_days_pct, avg_depth, code_share,
                               hero_discount_incidence, leakage,
                               norm_weights(weights)))

prestige_protection_index(promo_days_pct, avg_depth, code_share, hero_discount_incidence, leakage, weights) ==
    LET s == score_0_to_1(promo_days_pct, avg_depth, code_share,
                          hero_discount_incidence, leakage,
                          norm_weights(weights))
    IN  IF Raised(s) THEN ZeroDivisionError
        ELSE Max(Num(0), Min(Num(100), Mul(Num(100), s)))

---------------------------------------------------------------------------
(* Inputs of the PPI calls *)

MaxWeight == 1

WeightVals == {Num(k) : k \in -1 .. MaxWeight}

\* a supplied dict may also hold a key the scorer never reads
WeightDicts ==
    LET known == UNION {[K -> WeightVals] : K \in SUBSET WeightKeys}
    IN  known \cup {d @@ ("other" :> Num(1)) : d \in known}

WeightArgs == {None} \cup {Some(d) : d \in WeightDicts}

FactorVectors ==
    [promo_days_pct : {Num(0), R(3, 2)}, avg_depth : {Num(0), Num(1)},
     code_share : {R(1, 2), Num(1)}, hero_discount_incidence : {Num(0), Num(1)},
     leakage : {R(-1, 2), Num(1)}]
    \cup
    {[promo_days_pct |-> x, avg_depth |-> x, code_share |-> x,
      hero_discount_incidence |-> x, leakage |-> x] : x \in {Num(0), Num(1)}}

PpiArgs ==
    {f @@ ("weights" :> w) : f \in FactorVectors, w \in WeightArgs}

Scores == {R(k, 100) : k \in -100 .. 10100}

InitPpi ==
    /\ pc = "call"
    /\ \/ fn = "prestige_protection_index" /\ args \in PpiArgs
       \/ fn = "ppi_band" /\ args \in [ppi : Scores]
    /\ ret = None
    /\ exc = "none"

Call_prestige_protection_index ==
    /\ pc = "call" /\ fn = "prestige_protection_index"
    /\ ret' = prestige_protection_index(args.promo_days_pct, args.avg_depth,
                  args.code_share, args.hero_discount_incidence, args.leakage,
                  args.weights)
    /\ exc' = Exc(Raised(ret'))
    /\ pc' = "return"
    /\ UNCHANGED <<fn, args>>

Call_ppi_band ==
    /\ pc = "call" /\ fn = "ppi_band"
    /\ ret' = ppi_band(args.ppi, Num(green_max), Num(amber_max))
    /\ exc' = "none"
    /\ pc' = "return"
    /\ UNCHANGED <<fn, args>>

NextPpi == Call_prestige_protection_index \/ Call_ppi_band

SpecPpi == InitPpi /\ [][NextPpi]_vars

---------------------------------------------------------------------------
(* Promo calendar: src/core.py lines 13-32 and 60-142 *)

clamp(x, lo, hi) == Max(lo, Min(hi, x))

promo_delta_pct(net_gm_delta, baseline_gm) ==
    IF Gt(baseline_gm, Num(0))
    THEN Mul(Div(net_gm_delta, baseline_gm), Num(100))
    ELSE Num(0)

promo_by_week_first(events) ==
    [w \in {events[i].week : i \in DOMAIN events} |->
        LET first == CHOOSE i \in DOMAIN events :
                         /\ events[i].week = w
                         /\ \A j \in DOMAIN events : events[j].week = w => i <= j
        IN  events[first]]

\* {e.week: e for e in events}: a later event replaces an earlier one of the
\* same week
promo_by_week(events) ==
    [w \in {events[i].week : i \in DOMAIN events} |->
        LET last == CHOOSE i \in DOMAIN events :
                        /\ events[i].week = w
                        /\ \A j \in DOMAIN events : events[j].week = w => j <= i
        IN  events[last]]

IntMax(a, b) == IF b > a THEN b ELSE a

promo_week_incremental_only(baseline_weekly_units, list_price, gm_pct, elasticity, e, pull_forward_factor, cannibalization_factor) ==
    LET d == clamp(e.depth, Num(0), R(8, 10))
        price == Mul(Sub(Num(1), d), list_price)
        mult == Pow(Div(Num(1), Sub(Num(1), d)), IntMax(0, elasticity))
        units == Mul(baseline_weekly_units, mult)
        gm_week == Mul(Mul(units, price), gm_pct)
        base_week_gm == Mul(Mul(baseline_weekly_units, list_price), gm_pct)
        uplift == Max(Num(0), Sub(gm_week, base_week_gm))
        cannib == Mul(uplift, cannibalization_factor)
        pull_fwd == Mul(uplift, pull_forward_factor)
        incremental == Sub(Sub(uplift, cannib), pull_fwd)
    IN  [net_gm |-> Add(base_week_gm, incremental),
         trough_penalty |-> pull_fwd,
         uplift |-> uplift]

\* the body of the loop for one promo week (lines 104-121): what it adds to
\* net_gm and to trough_penalty
promo_week(baseline_weekly_units, list_price, gm_pct, elasticity, e, pull_forward_factor, cannibalization_factor) ==
    LET d == clamp(e.depth, Num(0), R(8, 10))
        price == Mul(Sub(Num(1), d), list_price)
        mult == Pow(Div(Num(1), Sub(Num(1), d)), IntMax(0, elasticity))
        units == Mul(baseline_weekly_units, mult)
        gm_week == Mul(Mul(units, price), gm_pct)
        base_week_gm == Mul(Mul(baseline_weekly_units, list_price), gm_pct)
        uplift == Max(Num(0), Sub(gm_week, base_week_gm))
        cannib == Mul(uplift, cannibalization_factor)
        pull_fwd == Mul(uplift, pull_forward_factor)
        incremental == Sub(Sub(uplift, cannib), pull_fwd)
    IN  [net_gm |-> Add(Add(Add(base_week_gm, incremental), cannib), pull_fwd),
         trough_penalty |-> pull_fwd,
         uplift |-> uplift]

\* the loop over w in range(1, weeks + 1) from week w on (lines 102-124)
RECURSIVE calendar_loop(_, _, _, _, _, _, _, _, _, _, _)
calendar_loop(baseline_weekly_units, list_price, gm_pct, elasticity, weeks, by_week, pull_forward_factor, cannibalization_factor, w, net_gm, trough_penalty) ==
    IF w > weeks THEN [net_gm |-> net_gm, trough_penalty |-> trough_penalty]
    ELSE IF w \in DOMAIN by_week
    THEN LET r == promo_week(baseline_weekly_units, list_price, gm_pct,
                             elasticity, by_week[w], pull_forward_factor,
                             cannibalization_factor)
         IN  calendar_loop(baseline_weekly_units, list_price, gm_pct,
                 elasticity, weeks, by_week, pull_forward_factor,
                 cannibalization_factor, w + 1, Add(net_gm, r.net_gm),
                 Add(trough_penalty, r.trough_penalty))
    ELSE calendar_loop(baseline_weekly_units, list_price, gm_pct,
             elasticity, weeks, by_week, pull_forward_factor,
             cannibalization_factor, w + 1,
             Add(net_gm, Mul(Mul(baseline_weekly_units, list_price), gm_pct)),
             trough_penalty)

\* sum(e.depth for e in events)
RECURSIVE DepthSum(_)
DepthSum(events) ==
    IF events = << >> THEN Num(0)
    ELSE Add(DepthSum(Tail(events)), Head(events).depth)

\* line 127
avg_depth_of(events) ==
    IF events # << >> THEN Div(DepthSum(events), Num(Len(events))) ELSE Num(0)

baseline_gm_total_no_margin(baseline_weekly_units, list_price, gm_pct, weeks) ==
    Mul(Mul(Num(weeks), baseline_weekly_units), list_price)

\* line 96
baseline_gm_total_of(baseline_weekly_units, list_price, gm_pct, weeks) ==
    Mul(Mul(Mul(Num(weeks), baseline_weekly_units), list_price), gm_pct)

eval_promo_calendar(baseline_weekly_units, list_price, gm_pct, elasticity, weeks, events, pull_forward_factor, cannibalization_factor) ==
    LET baseline_gm_total ==
            baseline_gm_total_of(baseline_weekly_units, list_price, gm_pct, weeks)
        l == calendar_loop(baseline_weekly_units, list_price, gm_pct,
                 elasticity, weeks, promo_by_week(events), pull_forward_factor,
                 cannibalization_factor, 1, Num(0), Num(0))
        net_gm_delta == Sub(Sub(l.net_gm, baseline_gm_total), l.trough_penalty)
        avg_depth == avg_depth_of(events)
        promo_days_pct ==
            IF weeks > 0 THEN Div(Num(Len(events)), Num(weeks)) ELSE Num(0)
        baseline_recovery_weeks ==
            Max(Num(0), Add(Num(2), Mul(Mul(Num(10), avg_depth),
                                        pull_forward_factor)))
    IN  [net_gm_delta |-> net_gm_delta,
         baseline_recovery_weeks |-> baseline_recovery_weeks,
         avg_depth |-> avg_depth,
         promo_days_pct |-> promo_days_pct,
         cannibalization_share |-> cannibalization_factor,
         pull_forward_share |-> pull_forward_factor,
         baseline_gm |-> baseline_gm_total,
         delta_pct |-> promo_delta_pct(net_gm_delta, baseline_gm_total)]

\* a division by zero anywhere in the evaluation surfaces in a field
ResultRaised(r) ==
    \/ Raised(r.net_gm_delta) \/ Raised(r.baseline_recovery_weeks)
    \/ Raised(r.avg_depth) \/ Raised(r.promo_days_pct)
    \/ Raised(r.baseline_gm) \/ Raised(r.delta_pct)

---------------------------------------------------------------------------
(* Inputs of the promo calendar calls.  elasticity is drawn from the
   integers, so that the demand multiplier stays rational. *)

MaxWeeks == 2
MaxEvents == 2

Depths == {R(-1, 2), R(1, 2), R(8, 10), R(3, 2)}

PromoEvent == [week : 1 .. MaxWeeks, depth : Depths, channel : {"DTC"}]

EventLists == UNION {[1 .. n -> PromoEvent] : n \in 0 .. MaxEvents}

CalendarArgs ==
    [baseline_weekly_units : {Num(0), Num(2)},
     list_price : {Num(10), Num(-10)},
     gm_pct : {R(1, 2)},
     elasticity : {-1, 2},
     weeks : 0 .. MaxWeeks,
     events : EventLists,
     pull_forward_factor : {Num(0), R(1, 2), Num(2)},
     cannibalization_factor : {R(1, 4), Num(1)}]

EvalOf(a) ==
    eval_promo_calendar(a.baseline_weekly_units, a.list_price, a.gm_pct,
        a.elasticity, a.weeks, a.events, a.pull_forward_factor,
        a.cannibalization_factor)

InitCalendar ==
    /\ pc = "call"
    /\ fn = "eval_promo_calendar"
    /\ args \in CalendarArgs
    /\ ret = None
    /\ exc = "none"

Call_eval_promo_calendar ==
    /\ pc = "call" /\ fn = "eval_promo_calendar"
    /\ ret' = EvalOf(args)
    /\ exc' = Exc(ResultRaised(ret'))
    /\ pc' = "return"
    /\ UNCHANGED <<fn, args>>

NextCalendar == Call_eval_promo_calendar

SpecCalendar == InitCalendar /\ [][NextCalendar]_vars

\* the calls that sell something: with baseline_weekly_units = 0 every margin
\* of the simulation is 0
SellingCalendarArgs ==
    {a \in CalendarArgs : a.baseline_weekly_units # Num(0)}

InitSellingCalendar ==
    /\ pc = "call"
    /\ fn = "eval_promo_calendar"
    /\ args \in SellingCalendarArgs
    /\ ret = None
    /\ exc = "none"

SpecSellingCalendar == InitSellingCalendar /\ [][NextCalendar]_vars

---------------------------------------------------------------------------
(* Advisor: src/core.py lines 234-259.  A message is named by its opening
   words. *)

\* lines 239-244
ppi_rule(ppi) ==
    IF Gt(ppi, Num(65)) THEN << "Prestige risk high" >>
    ELSE IF Gt(ppi, Num(50)) THEN << "Prestige risk moderate" >>
    ELSE << "Prestige protected" >>

\* lines 245-250
net_gm_rule(promo_result, price, gm_pct) ==
    IF Lt(promo_result.net_gm_delta, Num(0))
    THEN << "Promo plan erodes net GM" >>
    ELSE IF Lt(promo_result.net_gm_delta, Mul(Mul(price, gm_pct), Num(10)))
    THEN << "Promo plan marginal" >>
    ELSE << "Promo calendar accretive" >>

coupon_rule_ge(code_share) ==
    IF Ge(code_share, R(4, 10)) THEN << "High coupon dependence" >> ELSE << >>

\* lines 251-252
coupon_rule(code_share) ==
    IF Gt(code_share, R(4, 10)) THEN << "High coupon dependence" >> ELSE << >>

\* lines 253-256
payback_rule(pb) ==
    IF pb = None \/ pb[1] > 12 THEN << "Payback >12 months" >>
    ELSE << "Payback within 12 months" >>

\* lines 257-258
trough_rule(promo_result) ==
    IF Gt(promo_result.baseline_recovery_weeks, Num(4))
    THEN << "Long post-promo trough" >>
    ELSE << >>

advisor_payback_before_coupon(promo_result, ppi, price, gm_pct, retention, months, cac, code_share) ==
    LET arpu_monthly == Div(price, Num(12))
        pb == payback_month(arpu_monthly, gm_pct, retention, cac, months)
    IN  ppi_rule(ppi) \o net_gm_rule(promo_result, price, gm_pct)
          \o payback_rule(pb) \o coupon_rule(code_share)
          \o trough_rule(promo_result)

advisor(promo_result, ppi, price, gm_pct, retention, months, cac, code_share) ==
    LET arpu_monthly == Div(price, Num(12))
        pb == payback_month(arpu_monthly, gm_pct, retention, cac, months)
    IN  ppi_rule(ppi) \o net_gm_rule(promo_result, price, gm_pct)
          \o coupon_rule(code_share) \o payback_rule(pb)
          \o trough_rule(promo_result)

---------------------------------------------------------------------------
(* Inputs of the advisor calls *)

PromoEvalResults ==
    [net_gm_delta : {Num(-1), Num(0), Num(59), Num(60)},
     baseline_recovery_weeks : {Num(2), Num(4), R(9, 2)},
     avg_depth : {Num(0)}, promo_days_pct : {Num(0)},
     cannibalization_share : {R(1, 4)}, pull_forward_share : {R(1, 2)},
     baseline_gm : {Num(0)}, delta_pct : {Num(0)}]

AdvisorArgs ==
    [promo_result : PromoEvalResults,
     ppi : {Num(0), Num(50), R(501, 10), Num(65), R(651, 10)},
     price : {Num(12), Num(-12)},
     gm_pct : {R(1, 2)},
     retention : {R(1, 2), Num(1)},
     months : {0, 3, 13},
     cac : {R(1, 2), R(13, 2), Num(100)},
     code_share : {Num(0), R(4, 10), R(41, 100)}]

AdvisorOf(a) ==
    advisor(a.promo_result, a.ppi, a.price, a.gm_pct, a.retention, a.months,
            a.cac, a.code_share)

InitAdvisor ==
    /\ pc = "call"
    /\ fn = "advisor"
    /\ args \in AdvisorArgs
    /\ ret = None
    /\ exc = "none"

Call_advisor ==
    /\ pc = "call" /\ fn = "advisor"
    /\ ret' = AdvisorOf(args)
    /\ exc' = Exc(Raised(Div(args.price, Num(12))))
    /\ pc' = "return"
    /\ UNCHANGED <<fn, args>>

NextAdvisor == Call_advisor

SpecAdvisor == InitAdvisor /\ [][NextAdvisor]_vars

---------------------------------------------------------------------------
(* Every call of the core *)

Init == InitUnit \/ InitPpi \/ InitCalendar \/ InitAdvisor

Next ==
    \/ Call_ltv_gm
    \/ Call_payback_month
    \/ Call_prestige_protection_index
    \/ Call_ppi_band
    \/ Call_eval_promo_calendar
    \/ Call_advisor

Spec == Init /\ [][Next]_vars

---------------------------------------------------------------------------
(* Claims on the unit economics *)

\* sum over t = 1..k of arpu * gm_pct * retention^t
RECURSIVE CumMargin(_, _, _, _)
CumMargin(arpu, gm_pct, retention, k) ==
    IF k <= 0 THEN Num(0)
    ELSE Add(CumMargin(arpu, gm_pct, retention, k - 1),
             Mul(Mul(arpu, gm_pct), Pow(retention, k)))

SetMin(S) == CHOOSE m \in S : \A x \in S : m <= x

PaybackHits(a) ==
    {t \in 1 .. a.months :
        Ge(CumMargin(a.arpu, a.gm_pct, a.retention, t), a.cac)}

\* C5: payback_month returns the smallest t in 1..months whose cumulative
\* margin sum_{k=1..t} arpu*gm_pct*retention^k is >= cac, and None exactly
\* when no t in 1..months reaches cac (months = 0 included).
C5_PaybackSmallestMonth ==
    Returned("payback_month") =>
        IF PaybackHits(args) = {} THEN ret = None
        ELSE ret = Some(SetMin(PaybackHits(args)))

C5_Witness ==
    /\ Returned("payback_month")
    /\ ret = Some(2)
    /\ args.months = 3
    /\ 3 \in PaybackHits(args)
    /\ 1 \notin PaybackHits(args)

\* None is later than every month
PaybackLe(p, q) == q = None \/ (p # None /\ p[1] <= q[1])

\* C6: for fixed arpu, gm_pct, retention and months, payback_month is
\* non-decreasing in cac: cac1 <= cac2 implies payback(cac1) <= payback(cac2),
\* None counting as later than every month.
C6_PaybackMonotoneInCac ==
    Returned("payback_month") =>
        \A cac2 \in Cacs :
            Le(args.cac, cac2) =>
                PaybackLe(ret, payback_month(args.arpu, args.gm_pct,
                                             args.retention, cac2, args.months))

C6_Witness ==
    /\ Returned("payback_month")
    /\ ret = Some(1)
    /\ \E cac2 \in Cacs :
          /\ Lt(args.cac, cac2)
          /\ payback_month(args.arpu, args.gm_pct, args.retention, cac2,
                           args.months) = Some(3)

\* C7: for 0 < retention < 1 and months >= 0, ltv_gm is the finite geometric
\* sum of arpu*gm_pct*retention^t over t = 1..months; at retention = 1 it is
\* arpu*gm_pct*months.
C7_LtvIsGeometricSum ==
    Returned("ltv_gm") =>
        /\ (Lt(Num(0), args.retention) /\ Lt(args.retention, Num(1))
               /\ args.months >= 0) =>
             ret = CumMargin(args.arpu, args.gm_pct, args.retention, args.months)
        /\ args.retention = Num(1) =>
             ret = Mul(Mul(args.arpu, args.gm_pct), Num(args.months))

C7_Witness ==
    /\ Returned("ltv_gm")
    /\ args.retention = R(1, 3)
    /\ args.months = 3
    /\ args.arpu = R(5, 2)
    /\ ret = R(65, 108)

---------------------------------------------------------------------------
(* Claims on the promo calendar *)

\* C2 (as claimed): replacing an event of depth 1.5 by the same event with
\* depth 0.8, all else equal, leaves every field of the PromoEvalResult
\* unchanged.
C2_DepthClampedEverywhere ==
    Returned("eval_promo_calendar") =>
        \A i \in DOMAIN args.events :
            args.events[i].depth = R(3, 2) =>
                EvalOf([args EXCEPT !.events[i].depth = R(8, 10)]) = ret

\* C4: with an empty event list eval_promo_calendar returns net_gm_delta = 0,
\* avg_depth = 0 and promo_days_pct = 0, for every weeks >= 0 and all other
\* arguments.
C4_EmptyCalendar ==
    (Returned("eval_promo_calendar") /\ args.events = << >> /\ args.weeks >= 0) =>
        /\ ret.net_gm_delta = Num(0)
        /\ ret.avg_depth = Num(0)
        /\ ret.promo_days_pct = Num(0)

C4_Witness ==
    /\ Returned("eval_promo_calendar")
    /\ args.events = << >>
    /\ args.weeks = 2
    /\ ret.baseline_gm = Num(20)
    /\ ret.net_gm_delta = Num(0)

SetMax(S) == CHOOSE m \in S : \A x \in S : x <= m

\* the positions of the events of week w
EventsOfWeek(events, w) == {i \in DOMAIN events : events[i].week = w}

\* the weeks of the horizon 1..weeks that hold an event
PromoWeeks(events, weeks) ==
    {w \in 1 .. weeks : EventsOfWeek(events, w) # {}}

LastEventOfWeek(events, w) == events[SetMax(EventsOfWeek(events, w))]

\* max(0, promo week margin - baseline week margin) of an event of depth
\* depth
UpliftOf(a, depth) ==
    LET d == IF Lt(depth, Num(0)) THEN Num(0)
             ELSE IF Gt(depth, R(8, 10)) THEN R(8, 10) ELSE depth
        base == Mul(Mul(a.baseline_weekly_units, a.list_price), a.gm_pct)
        promo == Mul(Mul(Mul(a.baseline_weekly_units,
                             Pow(Div(Num(1), Sub(Num(1), d)),
                                 IF a.elasticity > 0 THEN a.elasticity ELSE 0)),
                         Mul(Sub(Num(1), d), a.list_price)), a.gm_pct)
    IN  IF Gt(promo, base) THEN Sub(promo, base) ELSE Num(0)

\* sum of f[w] over the weeks in S
RECURSIVE SumOver(_, _)
SumOver(S, f) ==
    IF S = {} THEN Num(0)
    ELSE LET w == CHOOSE x \in S : TRUE IN Add(f[w], SumOver(S \ {w}, f))

\* the last event of each week of the horizon, in week order
RECURSIVE LastPerWeek(_, _, _)
LastPerWeek(events, weeks, w) ==
    IF w > weeks THEN << >>
    ELSE (IF EventsOfWeek(events, w) # {}
          THEN << LastEventOfWeek(events, w) >> ELSE << >>)
         \o LastPerWeek(events, weeks, w + 1)

\* C11: net_gm_delta depends on the event list only through the week-keyed
\* mapping restricted to 1..weeks: of several events of one week only the
\* last is simulated, events outside 1..weeks are never simulated, each week
\* 1..weeks is visited exactly once; lists with the same last event per week
\* on 1..weeks give the same net_gm_delta.
C11_LastEventPerWeek ==
    Returned("eval_promo_calendar") =>
        /\ ret.net_gm_delta =
             SumOver(PromoWeeks(args.events, args.weeks),
                 [w \in 1 .. args.weeks |->
                     Mul(Sub(Num(1), args.pull_forward_factor),
                         UpliftOf(args, LastEventOfWeek(args.events, w).depth))])
        /\ ret.net_gm_delta =
             EvalOf([args EXCEPT
                 !.events = LastPerWeek(args.events, args.weeks, 1)]).net_gm_delta

C11_Witness ==
    /\ Returned("eval_promo_calendar")
    /\ args.weeks = 1
    /\ Len(args.events) = 2
    /\ args.events[1].week = 1 /\ args.events[1].depth = R(8, 10)
    /\ args.events[2].week = 1 /\ args.events[2].depth = R(1, 2)
    /\ ret.net_gm_delta = Num(5)

C11_WitnessOutside ==
    /\ Returned("eval_promo_calendar")
    /\ args.weeks = 1
    /\ args.events = << [week |-> 2, depth |-> R(8, 10), channel |-> "DTC"] >>
    /\ args.baseline_weekly_units = Num(2) /\ args.elasticity = 2
    /\ args.list_price = Num(10)
    /\ ret.net_gm_delta = Num(0)

\* the sum of the uplifts of the simulated promo weeks
UpliftSum(a) ==
    SumOver(PromoWeeks(a.events, a.weeks),
        [w \in 1 .. a.weeks |->
            UpliftOf(a, LastEventOfWeek(a.events, w).depth)])

OtherCannibalization == {Num(3)}

\* C13: net_gm_delta is (1 - pull_forward_factor) times the sum of the
\* uplifts of the simulated promo weeks; it does not depend on
\* cannibalization_factor, also when the two factors sum to more than 1, and
\* it is never negative when pull_forward_factor <= 1.
C13_NetGmDeltaFormula ==
    Returned("eval_promo_calendar") =>
        /\ ret.net_gm_delta =
             Mul(Sub(Num(1), args.pull_forward_factor), UpliftSum(args))
        /\ \A cf \in OtherCannibalization :
             EvalOf([args EXCEPT !.cannibalization_factor = cf]).net_gm_delta
                 = ret.net_gm_delta
        /\ Le(args.pull_forward_factor, Num(1)) => Ge(ret.net_gm_delta, Num(0))

C13_Witness ==
    /\ Returned("eval_promo_calendar")
    /\ args.pull_forward_factor = R(1, 2)
    /\ args.cannibalization_factor = Num(1)
    /\ Len(args.events) = 2
    /\ args.events[1].week # args.events[2].week
    /\ args.weeks = 2
    /\ UpliftSum(args) = Num(50)
    /\ ret.net_gm_delta = Num(25)

---------------------------------------------------------------------------
(* Claims on the advisor *)

\* C1 (as claimed): advisor returns exactly 5 messages when code_share <= 0.4
\* and exactly 6 when code_share > 0.4.
C1_FiveOrSixMessages ==
    Returned("advisor") =>
        Len(ret) = IF Gt(args.code_share, R(4, 10)) THEN 6 ELSE 5

Bit(b) == IF b THEN 1 ELSE 0

\* C1 (amended): advisor returns exactly 3 messages, plus one when
\* code_share > 0.4, plus one when baseline_recovery_weeks > 4: 3 or 4
\* messages when code_share <= 0.4, 4 or 5 when code_share > 0.4.
C1_MessageCount ==
    Returned("advisor") =>
        Len(ret) = 3 + Bit(Gt(args.code_share, R(4, 10)))
                     + Bit(Gt(args.promo_result.baseline_recovery_weeks, Num(4)))

C1_Witness ==
    /\ Returned("advisor")
    /\ args.code_share = R(41, 100)
    /\ args.promo_result.baseline_recovery_weeks = Num(2)
    /\ Len(ret) = 4

\* the place of a message's category in the fixed order
CategoryOf(msg) ==
    CASE msg \in {"Prestige risk high", "Prestige risk moderate",
                  "Prestige protected"} -> 1
      [] msg \in {"Promo plan erodes net GM", "Promo plan marginal",
                  "Promo calendar accretive"} -> 2
      [] msg = "High coupon dependence" -> 3
      [] msg \in {"Payback >12 months", "Payback within 12 months"} -> 4
      [] msg = "Long post-promo trough" -> 5

InCategory(msgs, c) == {i \in DOMAIN msgs : CategoryOf(msgs[i]) = c}

\* the months of 1..12 in which the margin on price/12 has reached cac
PaybackWithinYear(a) ==
    {t \in PaybackHits([arpu |-> Div(a.price, Num(12)), gm_pct |-> a.gm_pct,
                        retention |-> a.retention, cac |-> a.cac,
                        months |-> a.months]) : t <= 12}

\* C12: the messages come in the fixed category order PPI band, net-GM
\* verdict, coupon dependence, payback, long trough: exactly one PPI message
\* first (strong if ppi > 65, moderate if 50 < ppi <= 65, protected if
\* ppi <= 50), exactly one net-GM message second, exactly one payback message
\* (caution iff payback_month on price/12 is None or > 12), and at most one
\* message of each optional rule, present iff code_share > 0.4, respectively
\* baseline_recovery_weeks > 4, whatever the other rules did.
C12_FixedCategoryOrder ==
    Returned("advisor") =>
        /\ \A i \in 1 .. Len(ret) - 1 :
             CategoryOf(ret[i]) < CategoryOf(ret[i + 1])
        /\ ret[1] = IF Gt(args.ppi, Num(65)) THEN "Prestige risk high"
                    ELSE IF Gt(args.ppi, Num(50)) THEN "Prestige risk moderate"
                    ELSE "Prestige protected"
        /\ CategoryOf(ret[2]) = 2
        /\ Cardinality(InCategory(ret, 4)) = 1
        /\ \A i \in InCategory(ret, 4) :
             ret[i] = "Payback >12 months" <=> PaybackWithinYear(args) = {}
        /\ InCategory(ret, 3) # {} <=> Gt(args.code_share, R(4, 10))
        /\ InCategory(ret, 5) # {} <=>
             Gt(args.promo_result.baseline_recovery_weeks, Num(4))

C12_Witness ==
    /\ Returned("advisor")
    /\ Len(ret) = 5
    /\ ret[1] = "Prestige risk moderate"
    /\ ret[4] = "Payback >12 months"
    /\ payback_month(Div(args.price, Num(12)), args.gm_pct, args.retention,
                     args.cac, args.months) = Some(13)

---------------------------------------------------------------------------
(* Claims on every call *)

\* C8 (as claimed): no call of ltv_gm, payback_month, eval_promo_calendar,
\* prestige_protection_index or advisor reaches a division by zero, whatever
\* the inputs.
C8_NoDivisionByZero == pc = "return" => exc = "none"

---------------------------------------------------------------------------
(* Claims on the Prestige Protection Index *)

AllFactors(a, x) ==
    /\ a.promo_days_pct = x /\ a.avg_depth = x /\ a.code_share = x
    /\ a.hero_discount_incidence = x /\ a.leakage = x

\* C3: prestige_protection_index returns a number in [0,100] for every
\* combination of factors (also outside [0,1]) and weights (None, empty,
\* partial, summing to <= 0 or supplied); it is 0 when all five factors are
\* 0, and 100 when all five are 1 under the default weights.
C3_PpiInRange ==
    (pc = "return" /\ fn = "prestige_protection_index") =>
        /\ exc = "none"
        /\ Le(Num(0), ret) /\ Le(ret, Num(100))
        /\ AllFactors(args, Num(0)) => ret = Num(0)
        /\ (AllFactors(args, Num(1)) /\ args.weights = None) => ret = Num(100)

C3_Witness ==
    /\ Returned("prestige_protection_index")
    /\ args.promo_days_pct = R(3, 2)
    /\ args.weights = Some("promo_days" :> Num(1))
    /\ ret = Num(100)

ScaleWeights(d, c) == [k \in DOMAIN d |-> Mul(Num(c), d[k])]

PositiveSum(w) == w # None /\ Gt(DictSum(w[1]), Num(0))

PpiWith(a, w) ==
    prestige_protection_index(a.promo_days_pct, a.avg_depth, a.code_share,
                              a.hero_discount_incidence, a.leakage, w)

\* C9: the weights applied always sum to 1.  Supplied weights with a positive
\* sum are each divided by that sum, so multiplying all of them by the same
\* positive constant leaves the score unchanged; weights that are None, empty
\* or sum to <= 0 give the score of the default table 0.20/0.25/0.25/0.20/0.10.
C9_WeightsNormalised ==
    Returned("prestige_protection_index") =>
        /\ DictSum(norm_weights(args.weights)) = Num(1)
        /\ PositiveSum(args.weights) =>
             /\ norm_weights(args.weights) =
                  [k \in DOMAIN args.weights[1] |->
                      Div(args.weights[1][k], DictSum(args.weights[1]))]
             /\ \A c \in 2 .. 3 :
                  PpiWith(args, Some(ScaleWeights(args.weights[1], c))) = ret
        /\ ~PositiveSum(args.weights) =>
             /\ norm_weights(args.weights) = DefaultWeights
             /\ ret = PpiWith(args, Some(DefaultWeights))

C9_Witness ==
    /\ Returned("prestige_protection_index")
    /\ args.weights # None
    /\ DictSum(args.weights[1]) = Num(3)
    /\ "other" \notin DOMAIN args.weights[1]
    /\ \E k \in DOMAIN args.weights[1] : args.weights[1][k] = Num(-1)
    /\ ret = Num(50)

\* C10: with the default thresholds ppi_band is "Green" exactly for
\* score <= 35, "Amber" exactly for 35 < score <= 65 and "Red" exactly for
\* score > 65; 35.0 is Green, 35.01 Amber, 65.0 Amber and 65.01 Red.
C10_BandBoundaries ==
    Returned("ppi_band") =>
        /\ ret \in {"Green", "Amber", "Red"}
        /\ ret = "Green" <=> Le(args.ppi, Num(35))
        /\ ret = "Amber" <=> (Lt(Num(35), args.ppi) /\ Le(args.ppi, Num(65)))
        /\ ret = "Red" <=> Lt(Num(65), args.ppi)
        /\ args.ppi = Num(35) => ret = "Green"
        /\ args.ppi = R(3501, 100) => ret = "Amber"
        /\ args.ppi = Num(65) => ret = "Amber"
        /\ args.ppi = R(6501, 100) => ret = "Red"

C10_Witness ==
    /\ Returned("ppi_band")
    /\ args.ppi = Num(65)
    /\ ret = "Amber"

===========================================================================
